---- MODULE Spec2Model ----
(***************************************************************************)
(* Model of the u8 record codec of LiShaoyu5/u8_encode.                    *)
(*                                                                         *)
(*   src/U8Encoder.py  module-level functions encode_hint .. decode_database*)
(*   src/u8_encode.py  class U8Encoder with the same codec and a table      *)
(*                     encoder of its own                                  *)
(*                                                                         *)
(* Values.  A Python value is a record [type, v]:                          *)
(*   int    v = the digits of the integer in base 65536, most significant  *)
(*          first; four digits for 0 .. 2^64-1, five for an integer of     *)
(*          2^64 or more (TLC's integers stop at 2^31-1)                   *)
(*   float  v = the four base-65536 digits of the IEEE-754 bit pattern of  *)
(*          the double                                                     *)
(*   str    v = the sequence of Unicode code points                        *)
(*   NoneType  a value of no supported type                                *)
(* A function's outcome is Ok(value) or Err(exception class, raising line   *)
(* of src/U8Encoder.py).                                                   *)
(*                                                                         *)
(* Where an outcome is used more than once it is named by a bound variable  *)
(* over a one-element set (CHOOSE out \in {f(e) : e \in {expr}} : TRUE, or   *)
(* \E e \in {expr} in an action), which TLC evaluates once.                 *)
(***************************************************************************)
EXTENDS Integers, Sequences, FiniteSets, TLC

VARIABLES
    h_in,           \* hint codec: the (data_type, data_bits) given to encode_hint
    h_byte,         \* hint codec: outcome of encode_hint, or a raw byte
    h_out,          \* hint codec: outcome of decode_hint
    item,           \* item codec: the value given to encode_item
    enc,            \* item codec: outcome of encode_item
    given,          \* item codec: the payload bytes handed to decode_item
    dec,            \* item codec: outcome of decode_hint + decode_item
    row,            \* record codec: the record (list of values) being encoded
    rec,            \* record codec: outcome of encode_record
    buf,            \* record codec: the byte list handed to decode_record
    pc,             \* record codec: control point
    i,              \* decode_record: the scan offset i
    decoded_items,  \* decode_record: the list decoded_items
    result,         \* decode_record: outcome (returned list or exception)
    maxRead,        \* decode_record: highest index of encoded_record read, -1 if none
    impl,           \* table codec: which source copy runs
    columns,        \* table codec: df.columns
    rows,           \* table codec: the data rows of df, in order
    encoded_df,     \* table codec: outcome of encode_database
    decoded_df      \* table codec: outcome of decode_database

hintVars  == <<h_in, h_byte, h_out>>
itemVars  == <<item, enc, given, dec>>
recVars   == <<row, rec, buf, pc, i, decoded_items, result, maxRead>>
tableVars == <<impl, columns, rows, encoded_df, decoded_df>>
vars == <<hintVars, itemVars, recVars, tableVars>>

----------------------------------------------------------------------------
(* Outcomes *)

Ok(v) == [ok |-> TRUE, val |-> v]
Err(exc, line) == [ok |-> FALSE, exc |-> exc, line |-> line]
Unset == [ok |-> FALSE, exc |-> "unset", line |-> 0]

Min(a, b) == IF a < b THEN a ELSE b
Max(a, b) == IF a > b THEN a ELSE b

----------------------------------------------------------------------------
(* Python's integer operators on non-negative integers *)

RECURSIVE BitOr(_, _)
BitOr(a, b) ==
    IF a = 0 THEN b
    ELSE IF b = 0 THEN a
    ELSE (IF a % 2 = 1 \/ b % 2 = 1 THEN 1 ELSE 0) + (2 * BitOr(a \div 2, b \div 2))

RECURSIVE BitAnd(_, _)
BitAnd(a, b) ==
    IF a = 0 \/ b = 0 THEN 0
    ELSE (IF a % 2 = 1 /\ b % 2 = 1 THEN 1 ELSE 0) + (2 * BitAnd(a \div 2, b \div 2))

ShiftLeft(a, n) == a * (2 ^ n)
ShiftRight(a, n) == a \div (2 ^ n)

----------------------------------------------------------------------------
(* encode_hint / decode_hint *)

type_map == [int |-> 1, float |-> 2, str |-> 3]

type_name(t) == CASE t = 1 -> "int" [] t = 2 -> "float" [] t = 3 -> "str"

MaxDataBits == 63

\* encode_hint with the type indices numbered from 0.
encode_hint_zero_based(data_type, data_bits) ==
    IF data_type \notin DOMAIN type_map THEN Err("ValueError", 22)
    ELSE IF ~(0 <= data_bits /\ data_bits <= MaxDataBits) THEN Err("ValueError", 24)
    ELSE Ok(BitOr(ShiftLeft(type_map[data_type] - 1, 6), data_bits))

\* encode_hint without the range check of data_bits.
encode_hint_nocheck(data_type, data_bits) ==
    IF data_type \notin DOMAIN type_map THEN Err("ValueError", 22)
    ELSE Ok(BitOr(ShiftLeft(type_map[data_type], 6), data_bits))

encode_hint(data_type, data_bits) ==
    IF data_type \notin DOMAIN type_map THEN Err("ValueError", 22)
    ELSE IF ~(0 <= data_bits /\ data_bits <= MaxDataBits) THEN Err("ValueError", 24)
    ELSE Ok(BitOr(ShiftLeft(type_map[data_type], 6), data_bits))

decode_hint(encoded_value) ==
    LET data_type == BitAnd(ShiftRight(encoded_value, 6), 3)
        data_bits == BitAnd(encoded_value, 63)
    IN  IF data_type \notin {1, 2, 3} THEN Err("ValueError", 40)
        ELSE Ok([type |-> type_name(data_type), bits |-> data_bits])

----------------------------------------------------------------------------
(* struct.pack / struct.unpack and str.encode / bytes.decode *)

\* struct.pack(">Q", n) and struct.pack(">d", x): the 8 bytes, big-endian, of
\* the 64-bit pattern whose base-65536 digits are v.
RECURSIVE PackDigits(_)
PackDigits(v) ==
    IF v = <<>> THEN <<>>
    ELSE <<v[1] \div 256, v[1] % 256>> \o PackDigits(Tail(v))

\* struct.unpack(">Q", b) and struct.unpack(">d", b) on exactly 8 bytes.
RECURSIVE UnpackDigits(_)
UnpackDigits(b) ==
    IF b = <<>> THEN <<>>
    ELSE <<(b[1] * 256) + b[2]>> \o UnpackDigits(SubSeq(b, 3, Len(b)))

\* One code point as UTF-8; a surrogate has no UTF-8 form.
Utf8Char(c) ==
    IF c < 128 THEN <<c>>
    ELSE IF c < 2048 THEN <<192 + (c \div 64), 128 + (c % 64)>>
    ELSE IF c < 65536
         THEN <<224 + (c \div 4096), 128 + ((c \div 64) % 64), 128 + (c % 64)>>
    ELSE <<240 + (c \div 262144), 128 + ((c \div 4096) % 64),
           128 + ((c \div 64) % 64), 128 + (c % 64)>>

IsSurrogate(c) == 55296 <= c /\ c <= 57343

\* The UTF-8 forms of the code points of s, in order (halving keeps the
\* evaluation shallow). ASCII code points are their own UTF-8 form.
RECURSIVE Utf8Bytes(_)
Utf8Bytes(s) ==
    IF \A k \in 1..Len(s) : s[k] < 128 THEN s
    ELSE IF Len(s) = 1 THEN Utf8Char(s[1])
    ELSE LET h == Len(s) \div 2
         IN  Utf8Bytes(SubSeq(s, 1, h)) \o Utf8Bytes(SubSeq(s, h + 1, Len(s)))

\* item.encode("utf-8")
Utf8Encode(s) ==
    IF \E k \in 1..Len(s) : IsSurrogate(s[k]) THEN Err("UnicodeEncodeError", 56)
    ELSE Ok(Utf8Bytes(s))

\* Length of the UTF-8 sequence a lead byte announces, 0 for no lead byte.
Utf8SeqLen(b0) ==
    IF b0 < 128 THEN 1
    ELSE IF 194 <= b0 /\ b0 <= 223 THEN 2
    ELSE IF 224 <= b0 /\ b0 <= 239 THEN 3
    ELSE IF 240 <= b0 /\ b0 <= 244 THEN 4
    ELSE 0

\* The range the second byte of a sequence must lie in (no overlong forms,
\* no surrogates, nothing above U+10FFFF).
SecondLo(b0) == IF b0 = 224 THEN 160 ELSE IF b0 = 240 THEN 144 ELSE 128
SecondHi(b0) == IF b0 = 237 THEN 159 ELSE IF b0 = 244 THEN 143 ELSE 191

IsCont(b) == 128 <= b /\ b <= 191

\* The code point of the one UTF-8 sequence b[lo..hi], or UnicodeDecodeError
\* when the bytes are not exactly one well-formed sequence.
Utf8One(b, lo, hi) ==
    LET b0 == b[lo]
        n == Utf8SeqLen(b0)
    IN  IF n = 0 \/ n # hi - lo + 1 THEN Err("UnicodeDecodeError", 78)
        ELSE IF n = 1 THEN Ok(<<b0>>)
        ELSE IF ~(SecondLo(b0) <= b[lo + 1] /\ b[lo + 1] <= SecondHi(b0))
                \/ \E j \in 2..(n - 1) : ~IsCont(b[lo + j])
             THEN Err("UnicodeDecodeError", 78)
        ELSE IF n = 2
             THEN Ok(<<((b0 - 192) * 64) + (b[lo + 1] - 128)>>)
        ELSE IF n = 3
             THEN Ok(<<((b0 - 224) * 4096) + ((b[lo + 1] - 128) * 64)
                       + (b[lo + 2] - 128)>>)
        ELSE Ok(<<((b0 - 240) * 262144) + ((b[lo + 1] - 128) * 4096)
                  + ((b[lo + 2] - 128) * 64) + (b[lo + 3] - 128)>>)

\* The code points of b[lo..hi]. A sequence starts at every byte that is no
\* continuation byte, so the range is cut at such a byte near its middle and
\* the halves decoded on their own; a range with no such byte after its
\* first is one sequence. A range of ASCII bytes is its own code points.
RECURSIVE Utf8DecodeRange(_, _, _)
Utf8DecodeRange(b, lo, hi) ==
    IF lo > hi THEN Ok(<<>>)
    ELSE IF \A k \in lo..hi : b[k] < 128 THEN Ok(SubSeq(b, lo, hi))
    ELSE LET mid == (lo + hi + 1) \div 2
             cuts == {m \in Max(lo + 1, mid - 3)..Min(hi, mid + 3) : ~IsCont(b[m])}
         IN  IF cuts = {}
             THEN IF hi - lo + 1 > 4 THEN Err("UnicodeDecodeError", 78)
                  ELSE Utf8One(b, lo, hi)
             ELSE CHOOSE out \in
                      {CHOOSE o \in
                           {IF ~left.ok THEN left
                            ELSE IF ~right.ok THEN right
                            ELSE Ok(left.val \o right.val) :
                               left \in {Utf8DecodeRange(b, lo, m - 1)},
                               right \in {Utf8DecodeRange(b, m, hi)}} : TRUE :
                          m \in {CHOOSE x \in cuts : \A y \in cuts : x <= y}} : TRUE

\* bytes.decode("utf-8")
Utf8Decode(b) ==
    CHOOSE out \in {Utf8DecodeRange(bytes, 1, Len(bytes)) : bytes \in {b}} : TRUE

----------------------------------------------------------------------------
(* encode_item / decode_item *)

IntV(v) == [type |-> "int", v |-> v]
FloatV(v) == [type |-> "float", v |-> v]
StrV(s) == [type |-> "str", v |-> s]
NoneV == [type |-> "NoneType", v |-> <<>>]

\* struct.pack(">Q", item) raises struct.error outside 0 .. 2^64-1.
PackQ(x) ==
    IF Len(x.v) # 4 THEN Err("struct.error", 52)
    ELSE Ok(PackDigits(x.v))

\* struct.pack("<d", item): little-endian.
PackD_little(x) == LET b == PackDigits(x.v) IN [k \in 1..8 |-> b[9 - k]]

\* struct.pack(">d", item)
PackD(x) == PackDigits(x.v)

encode_item(x) ==
    IF x.type = "int"
    THEN CHOOSE out \in
             {IF ~h.ok THEN h ELSE IF ~p.ok THEN p ELSE Ok(<<h.val>> \o p.val) :
                 h \in {encode_hint("int", 8)}, p \in {PackQ(x)}} : TRUE
    ELSE IF x.type = "float"
    THEN CHOOSE out \in
             {IF ~h.ok THEN h ELSE Ok(<<h.val>> \o PackD(x)) :
                 h \in {encode_hint("float", 8)}} : TRUE
    ELSE IF x.type = "str"
    THEN CHOOSE out \in
             {IF ~e.ok THEN e
              ELSE CHOOSE o \in
                       {IF ~h.ok THEN h ELSE Ok(<<h.val>> \o e.val) :
                           h \in {encode_hint("str", Len(e.val))}} : TRUE :
                 e \in {Utf8Encode(x.v)}} : TRUE
    ELSE Err("ValueError", 61)

decode_item(item_type, item_len, encoded_item) ==
    IF item_type = "int"
    THEN IF Len(encoded_item) # 8 THEN Err("struct.error", 74)
         ELSE Ok(IntV(UnpackDigits(encoded_item)))
    ELSE IF item_type = "float"
    THEN IF Len(encoded_item) # 8 THEN Err("struct.error", 76)
         ELSE Ok(FloatV(UnpackDigits(encoded_item)))
    ELSE IF item_type = "str"
    THEN IF Len(encoded_item) # item_len THEN Err("struct.error", 78)
         ELSE LET s == Utf8Decode(encoded_item)
              IN  IF ~s.ok THEN s ELSE Ok(StrV(s.val))
    ELSE Err("ValueError", 82)

----------------------------------------------------------------------------
(* encode_record / decode_record *)

RecordSize == 256

Zeros(n) == [k \in 1..n |-> 0]

\* The loop of encode_record from item k on, encoded_items being acc: the
\* items' encodings in order, or the first exception encode_item raises.
RECURSIVE encode_items(_, _, _)
encode_items(record, k, acc) ==
    IF k > Len(record) THEN Ok(acc)
    ELSE CHOOSE out \in
             {IF ~e.ok THEN e ELSE encode_items(record, k + 1, acc \o e.val) :
                 e \in {encode_item(record[k])}} : TRUE

\* encode_record that cuts a long record to 256 bytes instead of raising.
encode_record_truncating(record) ==
    CHOOSE out \in
        {IF ~e.ok THEN e
         ELSE IF Len(e.val) > RecordSize THEN Ok(SubSeq(e.val, 1, RecordSize))
         ELSE Ok(e.val \o Zeros(RecordSize - Len(e.val))) :
            e \in {encode_items(record, 1, <<>>)}} : TRUE

encode_record(record) ==
    CHOOSE out \in
        {IF ~e.ok THEN e
         ELSE IF Len(e.val) > RecordSize THEN Err("ValueError", 97)
         ELSE Ok(e.val \o Zeros(RecordSize - Len(e.val))) :
            e \in {encode_items(record, 1, <<>>)}} : TRUE

\* encoded_record[off]: an index past the end raises IndexError.
ReadByte(b, off) ==
    IF off < Len(b) THEN Ok(b[off + 1]) ELSE Err("IndexError", 119)

\* encoded_record[lo : hi]: a slice stops at the end of the list.
Slice(b, lo, hi) ==
    IF lo >= Min(hi, Len(b)) THEN <<>> ELSE SubSeq(b, lo + 1, Min(hi, Len(b)))

\* The loop test with the bound included.
LoopCond_inclusive(off) == off <= RecordSize

\* while i < 256
LoopCond(off) == off < RecordSize

\* A terminator test that accepts any byte without a type index.
EndOfRecord_untagged(b, off) == b[off + 1] < 64

\* A terminator test that wants the whole rest of the record to be padding.
EndOfRecord_padding(b, off) == \A k \in (off + 1)..Len(b) : b[k] = 0

\* if encoded_record[i] == 0: break
EndOfRecord(b, off) == b[off + 1] = 0

\* One pass through the loop body at offset off:
\*   kind "break"  the terminator was read
\*   kind "raise"  out is the exception
\*   kind "item"   out is Ok(the decoded item), next the new offset
\* last is the highest index of encoded_record the pass read.
decode_body(b, off) ==
    LET r == ReadByte(b, off)
    IN  IF ~r.ok THEN [kind |-> "raise", out |-> r, next |-> off, last |-> off]
        ELSE IF EndOfRecord(b, off)
        THEN [kind |-> "break", out |-> Unset, next |-> off, last |-> off]
        ELSE LET h == decode_hint(r.val)
             IN  IF ~h.ok
                 THEN [kind |-> "raise", out |-> h, next |-> off, last |-> off]
                 ELSE CHOOSE s \in
                          {CHOOSE t \in
                               {[kind |-> IF d.ok THEN "item" ELSE "raise",
                                 out  |-> d,
                                 next |-> IF d.ok THEN off + h.val.bits + 1
                                          ELSE off,
                                 last |-> off + Len(piece)] :
                                   d \in {decode_item(h.val.type, h.val.bits,
                                                      piece)}} : TRUE :
                              piece \in {Slice(b, off + 1, off + 1 + h.val.bits)}}
                          : TRUE

RECURSIVE decode_loop(_, _, _)
decode_loop(b, off, acc) ==
    IF ~LoopCond(off) THEN Ok(acc)
    ELSE CHOOSE out \in
             {IF s.kind = "break" THEN Ok(acc)
              ELSE IF s.kind = "raise" THEN s.out
              ELSE decode_loop(b, s.next, Append(acc, s.out.val)) :
                 s \in {decode_body(b, off)}} : TRUE

decode_record(encoded_record) ==
    IF Len(encoded_record) # RecordSize THEN Err("ValueError", 114)
    ELSE decode_loop(encoded_record, 0, <<>>)

----------------------------------------------------------------------------
(* encode_database / decode_database. A DataFrame is [columns, rows]:
   df.columns.tolist() and the rows df.iterrows() yields, in order, each
   a list of values. The encoded DataFrame is the list of its rows, each a
   list of 256 bytes. *)

\* [encode_record(row) for row in rows] from row k on, or the first
\* exception raised.
RECURSIVE encode_records(_, _, _)
encode_records(xs, k, acc) ==
    IF k > Len(xs) THEN Ok(acc)
    ELSE CHOOSE out \in
             {IF ~e.ok THEN e ELSE encode_records(xs, k + 1, Append(acc, e.val)) :
                 e \in {encode_record(xs[k])}} : TRUE

\* [decode_record(row) for row in rows] from row k on, or the first
\* exception raised.
RECURSIVE decode_records(_, _, _)
decode_records(xs, k, acc) ==
    IF k > Len(xs) THEN Ok(acc)
    ELSE CHOOSE out \in
             {IF ~e.ok THEN e ELSE decode_records(xs, k + 1, Append(acc, e.val)) :
                 e \in {decode_record(xs[k])}} : TRUE

\* encode_database that emits the data records in reverse order.
encode_database_reversed(df) ==
    CHOOSE out \in
        {IF ~header_record.ok THEN header_record
         ELSE IF ~data_records.ok THEN data_records
         ELSE Ok(<<header_record.val>>
                 \o [k \in 1..Len(data_records.val) |->
                        data_records.val[Len(data_records.val) + 1 - k]]) :
            header_record \in {encode_record(df.columns)},
            data_records \in {encode_records(df.rows, 1, <<>>)}} : TRUE

\* src/U8Encoder.py: the header record, then the data records.
encode_database(df) ==
    CHOOSE out \in
        {IF ~header_record.ok THEN header_record
         ELSE IF ~data_records.ok THEN data_records
         ELSE Ok(<<header_record.val>> \o data_records.val) :
            header_record \in {encode_record(df.columns)},
            data_records \in {encode_records(df.rows, 1, <<>>)}} : TRUE

\* src/U8Encoder.py: the first record is the header, the others the data;
\* pd.DataFrame(data_records, columns=header) wants every row as wide as
\* the header.
decode_database(encoded) ==
    CHOOSE out \in
        {IF ~header.ok THEN header
         ELSE IF ~data_records.ok THEN data_records
         ELSE IF \E k \in 1..Len(data_records.val) :
                     Len(data_records.val[k]) # Len(header.val)
         THEN Err("ValueError", 162)
         ELSE Ok([columns |-> header.val, rows |-> data_records.val]) :
            header \in {decode_record(encoded[1])},
            data_records \in {decode_records(encoded, 2, <<>>)}} : TRUE

\* src/u8_encode.py: the data records alone.
U8Encoder_encode_database(df) == encode_records(df.rows, 1, <<>>)

\* The column labels pandas gives a DataFrame built without columns:
\* 0, 1, .., n-1.
RangeIndex(n) == [k \in 1..n |-> IntV(<<0, 0, 0, k - 1>>)]

\* src/u8_encode.py: every record is a data record; the columns are pandas'
\* default labels.
U8Encoder_decode_database(encoded) ==
    CHOOSE out \in
        {IF ~data_records.ok THEN data_records
         ELSE Ok([columns |-> IF data_records.val = <<>> THEN <<>>
                              ELSE RangeIndex(Len(data_records.val[1])),
                  rows |-> data_records.val]) :
            data_records \in {decode_records(encoded, 1, <<>>)}} : TRUE

----------------------------------------------------------------------------
(* Inputs *)

Rep(c, n) == [k \in 1..n |-> c]

I0 == IntV(<<0, 0, 0, 0>>)                       \* 0
I42 == IntV(<<0, 0, 0, 42>>)                     \* 42
IMixed == IntV(<<1, 0, 256, 42>>)                \* 0x0001_0000_0100_002A
IMax == IntV(<<65535, 65535, 65535, 65535>>)     \* 2^64 - 1
IBig == IntV(<<1, 0, 0, 0, 0>>)                  \* 2^64
F0 == FloatV(<<0, 0, 0, 0>>)                     \* 0.0
F314 == FloatV(<<16393, 7864, 20971, 34079>>)    \* 3.14 = 0x40091EB851EB851F
S0 == StrV(<<>>)                                 \* ""
SMix == StrV(<<97, 0, 233, 21834, 128512>>)      \* "a\0" + U+00E9 + U+554A + U+1F600
SLone == StrV(<<55296>>)                         \* a lone surrogate

\* 'a', NUL, and one code point of each longer UTF-8 width.
Chars == {97, 0, 233, 21834, 128512}

\* Longest string, in code points, the item codec is given.
MaxChars == 65

\* Furthest data_bits, above and below the valid range, given to encode_hint.
MaxBits == 65

HintTypes == {"int", "float", "str", "bytes"}

NoHint == [type |-> "none", bits |-> 0]

ItemInputs ==
    {I0, I42, IMixed, IMax, IBig, F0, F314, SMix, SLone, NoneV}
    \cup {StrV(Rep(c, n)) : c \in Chars, n \in 0..MaxChars}

----------------------------------------------------------------------------
(* Hint codec: encode_hint on any arguments, decode_hint on its result and
   on any byte *)

\* The arguments of one call of encode_hint, or one byte for decode_hint;
\* the other codecs are at rest.
HintInit ==
    /\ h_in \in [type : HintTypes, bits : (-1)..MaxBits] \cup {NoHint}
    /\ h_byte \in IF h_in = NoHint THEN {Ok(b) : b \in 0..255} ELSE {Unset}
    /\ h_out = Unset
    /\ item = NoneV /\ enc = Unset /\ given = <<>> /\ dec = Unset
    /\ row = <<>> /\ rec = Unset /\ buf = <<>> /\ pc = "idle" /\ i = 0
    /\ decoded_items = <<>> /\ result = Unset /\ maxRead = -1
    /\ impl = "none" /\ columns = <<>> /\ rows = <<>>
    /\ encoded_df = Unset /\ decoded_df = Unset

HintEncode ==
    /\ h_in # NoHint
    /\ h_byte = Unset
    /\ h_byte' = encode_hint(h_in.type, h_in.bits)
    /\ UNCHANGED <<h_in, h_out, itemVars, recVars, tableVars>>

HintDecode ==
    /\ h_byte.ok
    /\ h_out = Unset
    /\ h_out' = decode_hint(h_byte.val)
    /\ UNCHANGED <<h_in, h_byte, itemVars, recVars, tableVars>>

HintNext == HintEncode \/ HintDecode

----------------------------------------------------------------------------
(* Item codec: encode_item, then decode_hint on the first byte and decode_item
   on the rest (TestU8Encoder.test_encode_decode_item), the rest given whole,
   one byte short or one byte long *)

Resize(b, delta) ==
    IF delta < 0 THEN SubSeq(b, 1, Len(b) - 1)
    ELSE IF delta > 0 THEN Append(b, 0)
    ELSE b

\* One value for encode_item; the other codecs are at rest.
ItemInit ==
    /\ item \in ItemInputs
    /\ enc = Unset
    /\ given = <<>>
    /\ dec = Unset
    /\ h_in = NoHint /\ h_byte = Unset /\ h_out = Unset
    /\ row = <<>> /\ rec = Unset /\ buf = <<>> /\ pc = "idle" /\ i = 0
    /\ decoded_items = <<>> /\ result = Unset /\ maxRead = -1
    /\ impl = "none" /\ columns = <<>> /\ rows = <<>>
    /\ encoded_df = Unset /\ decoded_df = Unset

ItemEncode ==
    /\ enc = Unset
    /\ enc' = encode_item(item)
    /\ UNCHANGED <<item, given, dec, hintVars, recVars, tableVars>>

ItemDecode(delta) ==
    /\ enc.ok
    /\ dec = Unset
    /\ LET h == decode_hint(enc.val[1])
           payload == Resize(Tail(enc.val), delta)
       IN  /\ given' = payload
           /\ dec' = IF ~h.ok THEN h
                     ELSE decode_item(h.val.type, h.val.bits, payload)
    /\ UNCHANGED <<item, enc, hintVars, recVars, tableVars>>

ItemNext == ItemEncode \/ \E delta \in {-1, 0, 1} : ItemDecode(delta)

----------------------------------------------------------------------------
(* Record codec: encode_record on a row, then decode_record, one pass of its
   loop at a time, on the bytes encode_record returned or on those bytes with
   one byte overwritten, the last byte dropped or a byte added *)

S54 == StrV(Rep(97, 54))    \* 54 bytes: 55 encoded, 3 * 64 + 55 = 256 - 9
S63 == StrV(Rep(97, 63))    \* 63 bytes: 64 encoded, four fill a record
S64 == StrV(Rep(97, 64))    \* one byte too long

\* A row is up to MaxPrefix 63-byte strings (64 encoded bytes each) followed
\* by up to MaxTail values of RecItems.
MaxPrefix == 4
MaxTail == 2

RecItems == {I0, IMax, F314, S0, SMix, S54, S64, NoneV}

Tails == UNION {[1..n -> RecItems] : n \in 0..MaxTail}

RowInputs == {Rep(S63, k) \o t : k \in 0..MaxPrefix, t \in Tails}

\* UTF-8 byte length of a string: one byte per code point, one more from
\* U+0080, from U+0800 and from U+10000 on.
ByteLen(s) ==
    Len(s) + Cardinality({k \in 1..Len(s) : s[k] >= 128})
           + Cardinality({k \in 1..Len(s) : s[k] >= 2048})
           + Cardinality({k \in 1..Len(s) : s[k] >= 65536})

\* Encoded size of a row: 1 + 8 per number, 1 + byte length per string.
RECURSIVE EncodedSize(_)
EncodedSize(r) ==
    IF r = <<>> THEN 0
    ELSE (IF r[1].type = "str" THEN 1 + ByteLen(r[1].v) ELSE 9)
         + EncodedSize(Tail(r))

\* Where a byte is overwritten: the first hint and payload bytes, the first
\* padding byte and the one after it, the offset of an 8-byte value that ends
\* the record, the last byte.
TamperAt == {0, 1, EncodedSize(row), EncodedSize(row) + 1,
             RecordSize - 9, RecordSize - 1}

\* What it is overwritten with: the terminator, the untagged bytes 1 and 63,
\* the hints (int, 10) and (str, 63).
TamperTo == {0, 1, 63, 74, 255}

\* One row for encode_record; the other codecs are at rest.
RecInit ==
    /\ row \in RowInputs
    /\ rec = Unset
    /\ buf = <<>>
    /\ pc = "row"
    /\ i = 0
    /\ decoded_items = <<>>
    /\ result = Unset
    /\ maxRead = -1
    /\ h_in = NoHint /\ h_byte = Unset /\ h_out = Unset
    /\ item = NoneV /\ enc = Unset /\ given = <<>> /\ dec = Unset
    /\ impl = "none" /\ columns = <<>> /\ rows = <<>>
    /\ encoded_df = Unset /\ decoded_df = Unset

EncodeRecord ==
    /\ pc = "row"
    /\ rec' = encode_record(row)
    /\ buf' = IF rec'.ok THEN rec'.val ELSE <<>>
    /\ pc' = IF rec'.ok THEN "encoded" ELSE "rejected"
    /\ UNCHANGED <<row, i, decoded_items, result, maxRead,
                   hintVars, itemVars, tableVars>>

Tamper(p, v) ==
    /\ pc = "encoded"
    /\ p < Len(buf)
    /\ buf[p + 1] # v
    /\ buf' = [buf EXCEPT ![p + 1] = v]
    /\ pc' = "tampered"
    /\ UNCHANGED <<row, rec, i, decoded_items, result, maxRead,
                   hintVars, itemVars, tableVars>>

Relength(delta) ==
    /\ pc = "encoded"
    /\ buf' = Resize(buf, delta)
    /\ pc' = "tampered"
    /\ UNCHANGED <<row, rec, i, decoded_items, result, maxRead,
                   hintVars, itemVars, tableVars>>

\* decode_record up to the loop: the length check, decoded_items = [], i = 0.
DecodeEnter ==
    /\ pc \in {"encoded", "tampered"}
    /\ IF Len(buf) # RecordSize
       THEN /\ result' = Err("ValueError", 114)
            /\ pc' = "raised"
       ELSE /\ result' = Unset
            /\ pc' = "scan"
    /\ i' = 0
    /\ decoded_items' = <<>>
    /\ UNCHANGED <<row, rec, buf, maxRead, hintVars, itemVars, tableVars>>

\* One pass of the loop body.
DecodeIter ==
    /\ pc = "scan"
    /\ LoopCond(i)
    /\ \E s \in {decode_body(buf, i)} :
           /\ maxRead' = Max(maxRead, s.last)
           /\ i' = s.next
           /\ decoded_items' = IF s.kind = "item"
                               THEN Append(decoded_items, s.out.val)
                               ELSE decoded_items
           /\ result' = IF s.kind = "raise" THEN s.out
                        ELSE IF s.kind = "break" THEN Ok(decoded_items)
                        ELSE Unset
           /\ pc' = IF s.kind = "raise" THEN "raised"
                    ELSE IF s.kind = "break" THEN "returned"
                    ELSE "scan"
    /\ UNCHANGED <<row, rec, buf, hintVars, itemVars, tableVars>>

\* The loop test fails: return decoded_items.
DecodeExit ==
    /\ pc = "scan"
    /\ ~LoopCond(i)
    /\ result' = Ok(decoded_items)
    /\ pc' = "returned"
    /\ UNCHANGED <<row, rec, buf, i, decoded_items, maxRead,
                   hintVars, itemVars, tableVars>>

RecNext ==
    \/ EncodeRecord
    \/ \E p \in TamperAt, v \in TamperTo : Tamper(p, v)
    \/ \E delta \in {-1, 1} : Relength(delta)
    \/ DecodeEnter
    \/ DecodeIter
    \/ DecodeExit

----------------------------------------------------------------------------
(* Table codec: a DataFrame of 1..MaxCols columns and 0..MaxRows rows through
   encode_database and decode_database of one of the two source copies *)

MaxCols == 3
MaxRows == 2

Copies == {"U8Encoder.py", "u8_encode.py"}

\* Column labels: strings, or the labels 0, 1, .. of a DataFrame built
\* without columns (the DataFrames of the tests).
NamedColumns(n) == [k \in 1..n |-> StrV(<<98 + k, 233>>)]

Headers == UNION {{NamedColumns(n), RangeIndex(n)} : n \in 1..MaxCols}

\* The values a row is filled with, taken in rotation from the column on.
CellValues == <<I0, SMix, F314, IMax, S0, S64>>

RowOf(t, n) == [c \in 1..n |-> CellValues[((t + c - 2) % Len(CellValues)) + 1]]

\* One source copy and the columns of an empty DataFrame; the other codecs
\* are at rest.
TableInit ==
    /\ impl \in Copies
    /\ columns \in Headers
    /\ rows = <<>>
    /\ encoded_df = Unset
    /\ decoded_df = Unset
    /\ h_in = NoHint /\ h_byte = Unset /\ h_out = Unset
    /\ item = NoneV /\ enc = Unset /\ given = <<>> /\ dec = Unset
    /\ row = <<>> /\ rec = Unset /\ buf = <<>> /\ pc = "idle" /\ i = 0
    /\ decoded_items = <<>> /\ result = Unset /\ maxRead = -1

AddRow(t) ==
    /\ encoded_df = Unset
    /\ Len(rows) < MaxRows
    /\ rows' = Append(rows, RowOf(t, Len(columns)))
    /\ UNCHANGED <<impl, columns, encoded_df, decoded_df,
                   hintVars, itemVars, recVars>>

EncodeDatabase ==
    /\ encoded_df = Unset
    /\ encoded_df' = IF impl = "U8Encoder.py"
                     THEN encode_database([columns |-> columns, rows |-> rows])
                     ELSE U8Encoder_encode_database(
                              [columns |-> columns, rows |-> rows])
    /\ UNCHANGED <<impl, columns, rows, decoded_df, hintVars, itemVars, recVars>>

DecodeDatabase ==
    /\ encoded_df.ok
    /\ decoded_df = Unset
    /\ decoded_df' = IF impl = "U8Encoder.py"
                     THEN decode_database(encoded_df.val)
                     ELSE U8Encoder_decode_database(encoded_df.val)
    /\ UNCHANGED <<impl, columns, rows, encoded_df, hintVars, itemVars, recVars>>

TableNext ==
    \/ \E t \in 1..Len(CellValues) : AddRow(t)
    \/ EncodeDatabase
    \/ DecodeDatabase

SpecHint == HintInit /\ [][HintNext]_vars
SpecItem == ItemInit /\ [][ItemNext]_vars
SpecRecord == RecInit /\ [][RecNext]_vars
SpecTable == TableInit /\ [][TableNext]_vars

\* The hint codec and the record codec side by side: a call of the hint
\* codec, or a row for the record codec.
CodecInit ==
    /\ h_in \in [type : HintTypes, bits : (-1)..MaxBits] \cup {NoHint}
    /\ h_byte \in {Unset} \cup (IF h_in = NoHint THEN {Ok(b) : b \in 0..255} ELSE {})
    /\ h_out = Unset
    /\ row \in IF h_in = NoHint /\ h_byte = Unset THEN RowInputs ELSE {<<>>}
    /\ rec = Unset
    /\ buf = <<>>
    /\ pc = IF h_in = NoHint /\ h_byte = Unset THEN "row" ELSE "idle"
    /\ i = 0
    /\ decoded_items = <<>>
    /\ result = Unset
    /\ maxRead = -1
    /\ item = NoneV /\ enc = Unset /\ given = <<>> /\ dec = Unset
    /\ impl = "none" /\ columns = <<>> /\ rows = <<>>
    /\ encoded_df = Unset /\ decoded_df = Unset

CodecNext == HintNext \/ RecNext

SpecCodec == CodecInit /\ [][CodecNext]_vars

----------------------------------------------------------------------------
(* The values the codec supports, and what a record holds *)

Supported(x) ==
    \/ x.type \in {"int", "float"} /\ Len(x.v) = 4
    \/ /\ x.type = "str"
       /\ \A k \in 1..Len(x.v) : ~IsSurrogate(x.v[k])
       /\ ByteLen(x.v) <= 63

RowSupported(r) == \A k \in 1..Len(r) : Supported(r[k])

RECURSIVE ConcatEncodings(_)
ConcatEncodings(r) ==
    IF r = <<>> THEN <<>> ELSE encode_item(r[1]).val \o ConcatEncodings(Tail(r))

TagIndex(t) == CASE t = "int" -> 1 [] t = "float" -> 2 [] t = "str" -> 3

Untampered == rec.ok /\ buf = rec.val

----------------------------------------------------------------------------
(* Claims *)

\* C1. Record round trip: a row of supported values whose encoded size is at
\* most 256 is encoded, and decode_record on the bytes encode_record returned
\* returns the row: the same values, of the same kinds, in the same order.
C1_RecordRoundTrip ==
    /\ pc \in {"encoded", "rejected"} /\ RowSupported(row)
           /\ EncodedSize(row) <= RecordSize => rec.ok
    /\ pc \in {"returned", "raised"} /\ Untampered => result = Ok(row)

C1_Witness ==
    /\ pc = "returned" /\ Untampered /\ result = Ok(row)
    /\ \E k \in 1..Len(row) : row[k] = I0
    /\ \E k \in 1..Len(row) : row[k] = SMix

\* C2. Table round trip (src/U8Encoder.py): a table whose header and rows
\* each fit a record is encoded, and decode_database on the outcome of
\* encode_database yields the same column names and the same rows in order.
TableFits ==
    /\ RowSupported(columns) /\ EncodedSize(columns) <= RecordSize
    /\ \A k \in 1..Len(rows) :
           RowSupported(rows[k]) /\ EncodedSize(rows[k]) <= RecordSize

C3_TableLayout ==
    encoded_df.ok =>
        /\ Len(encoded_df.val) = Len(rows) + 1
        /\ encoded_df.val[1] = encode_record(columns).val
        /\ \A k \in 1..Len(rows) :
               encoded_df.val[k + 1] = encode_record(rows[k]).val
        /\ decoded_df.ok =>
               /\ decoded_df.val.columns = decode_record(encoded_df.val[1]).val
               /\ decoded_df.val.rows =
                      [k \in 1..Len(rows) |->
                          decode_record(encoded_df.val[k + 1]).val]

\* C4. encode_record is strict and fixed-width: for a row of encodable values
\* of encoded size S, if S <= 256 the outcome is 256 bytes, the first S the
\* items' encodings in order and the rest 0; if S > 256 it raises the
\* size error and returns nothing.
C4_StrictFixedWidth ==
    pc \in {"encoded", "rejected"} /\ RowSupported(row) =>
        LET S == EncodedSize(row)
        IN  IF S <= RecordSize
            THEN /\ rec.ok
                 /\ Len(rec.val) = RecordSize
                 /\ SubSeq(rec.val, 1, S) = ConcatEncodings(row)
                 /\ \A k \in (S + 1)..RecordSize : rec.val[k] = 0
            ELSE rec = Err("ValueError", 97)

C4_Witness ==
    /\ pc = "rejected" /\ RowSupported(row)
    /\ EncodedSize(row) = RecordSize + 1
    /\ rec = Err("ValueError", 97)

\* C5. Hint byte: for a type of int, float, str and a length in 0..63,
\* encode_hint returns 64 * type index + length, which lies in 64..255 and so
\* is never the terminator 0, and decode_hint on it returns the type and the
\* length.
C5_HintByte ==
    h_in.type \in {"int", "float", "str"} /\ h_in.bits \in 0..63 /\ h_byte # Unset
        => /\ h_byte = Ok((64 * TagIndex(h_in.type)) + h_in.bits)
           /\ h_byte.val \in 64..255
           /\ h_out # Unset => h_out = Ok(h_in)

C5_Witness ==
    /\ h_in = [type |-> "str", bits |-> 0]
    /\ h_byte = Ok(192)
    /\ h_out = Ok(h_in)

\* C6. String length ceiling: encode_item of a string of UTF-8 length L
\* returns, for L <= 63, the hint 192 + L and the L bytes; for L >= 64 it
\* raises the range error of encode_hint and returns no hint.
C6_StringCeiling ==
    /\ item.type = "str"
    /\ \A k \in 1..Len(item.v) : ~IsSurrogate(item.v[k])
    /\ enc # Unset
    => LET L == ByteLen(item.v)
       IN  IF L <= 63
           THEN /\ enc.ok
                /\ Len(enc.val) = 1 + L
                /\ enc.val[1] = 192 + L
                /\ Tail(enc.val) = Utf8Bytes(item.v)
           ELSE enc = Err("ValueError", 24)

C6_Witness ==
    /\ item.type = "str" /\ ByteLen(item.v) = 64
    /\ enc = Err("ValueError", 24)

\* C7. Bounded scan of decode_record: the offset starts at 0 and grows by
\* 1 + length with every decoded value, so that the values decoded never
\* outnumber the bytes passed; no byte at index 256 or beyond is read; and a
\* record that its values fill to the last byte decodes to all of its values
\* with the offset ending at 256.
C7_ScanState ==
    /\ maxRead < RecordSize
    /\ result.ok \/ result.exc # "IndexError"
    /\ pc = "scan" => 0 <= i /\ Len(decoded_items) <= i /\ i <= RecordSize + 63
    /\ pc = "returned" /\ Untampered /\ EncodedSize(row) = RecordSize
           => i = RecordSize /\ result = Ok(row)

C7_ScanStep ==
    /\ pc # "scan" /\ pc' = "scan" => i' = 0
    /\ pc = "scan" /\ pc' = "scan"
           => /\ i' = i + 1 + (buf[i + 1] % 64)
              /\ i' > i
              /\ Len(decoded_items') = Len(decoded_items) + 1

C7_BoundedScan == []C7_ScanState /\ [][C7_ScanStep]_vars

C7_Witness ==
    /\ pc = "returned" /\ Untampered /\ EncodedSize(row) = RecordSize
    /\ i = RecordSize /\ maxRead = RecordSize - 1

\* C8. Byte-count mismatch is an error: decode_item raises when the bytes it
\* is given are not as many as the type and length require (8 for int and
\* float, the length for str); hence decode_record raises on a hint of type
\* int or float whose length is not 8 and on a hint whose payload would
\* extend past byte 255.
C8_MismatchStep ==
    pc = "scan" /\ i < RecordSize /\ buf[i + 1] >= 64 =>
        LET tag == buf[i + 1] \div 64
            bits == buf[i + 1] % 64
            piece == Slice(buf, i + 1, i + 1 + bits)
            required == IF tag \in {1, 2} THEN 8 ELSE bits
        IN  /\ Len(piece) # required
                => ~decode_item(type_name(tag), bits, piece).ok
            /\ (tag \in {1, 2} /\ bits # 8) \/ i + bits >= RecordSize
                => pc' = "raised" /\ ~result'.ok

C8_ByteCountMismatch == [][C8_MismatchStep]_vars

\* C9. Lenient padding: a 256-byte input that agrees with an encoded record
\* on every byte up to and including its terminator decodes to the same
\* value list as that record, whatever its bytes after the terminator are.
AgreesThroughTerminator ==
    /\ rec.ok
    /\ Len(buf) = RecordSize
    /\ EncodedSize(row) < RecordSize
    /\ \A k \in 1..(EncodedSize(row) + 1) : buf[k] = rec.val[k]

C9_LenientPadding ==
    pc \in {"returned", "raised"} /\ AgreesThroughTerminator
        => result = decode_record(rec.val) /\ result.ok /\ i = EncodedSize(row)

C9_Witness ==
    /\ pc = "returned" /\ AgreesThroughTerminator
    /\ buf # rec.val
    /\ buf[RecordSize] = 255
    /\ result = Ok(row) /\ row # <<>>

\* C10. Only the byte 0 is a terminator: decode_hint raises for exactly the
\* bytes 0..63; in decode_record a 0 at a hint position ends the record, a
\* byte of 1..63 there raises decode_hint's error, and a 0 inside a payload
\* does not end the record.
C10_HintState ==
    h_byte.ok /\ h_out # Unset =>
        /\ h_out.ok <=> h_byte.val >= 64
        /\ ~h_out.ok => h_out = Err("ValueError", 40)

C10_PayloadState ==
    pc = "returned" /\ Untampered =>
        i = EncodedSize(row) /\ Len(result.val) = Len(row)

C10_HintStep ==
    pc = "scan" /\ i < RecordSize =>
        LET byte == buf[i + 1]
        IN  /\ byte = 0 => pc' = "returned" /\ result' = Ok(decoded_items)
            /\ byte \in 1..63 => pc' = "raised" /\ result' = Err("ValueError", 40)
            /\ byte >= 64 => pc' # "returned" /\ result' # Err("ValueError", 40)

C10_OnlyZeroTerminates ==
    []C10_HintState /\ []C10_PayloadState /\ [][C10_HintStep]_vars

C10_Witness ==
    /\ pc = "raised" /\ result = Err("ValueError", 40)
    /\ buf[i + 1] \in 1..63

====
